---- MODULE Spec2Model ----
(***************************************************************************)
(* State-machine model of src/graphics/image.rs (ggez): creation of an     *)
(* Image from raw RGBA bytes, its sampler / blend-mode setters, read-back  *)
(* through the context's download buffer, encoding, and drawing.           *)
(*                                                                         *)
(* Integer widths are scaled so that the arithmetic stays inside TLC's     *)
(* integers while keeping the shape of the real one: a dimension (u16 in   *)
(* the source) has DimBits bits and the platform size integer (usize) has  *)
(* SizeBits bits, with DimBits < SizeBits < 2*DimBits + 2, which is the    *)
(* relation between u16 and a 32-bit usize: one dimension always fits, the *)
(* product of two maximal dimensions times 4 does not.                     *)
(*                                                                         *)
(* The backend (gfx factory, encoder, GraphicsContext) is not part of the  *)
(* file; every backend call that returns a Result may fail, chosen by the  *)
(* `fail` input of the calling action.  The sampler cache and the pipeline *)
(* data bindings written by draw_image_raw (gfx.data.vbuf, gfx.data.tex)   *)
(* are recorded as calls in the trace of the operation, not as state.      *)
(***************************************************************************)
EXTENDS Integers, Sequences, FiniteSets, TLC

VARIABLES
    gfx,       \* context id -> [blend_mode, to_rgba8_buffer, factory]
    images,    \* image variable (slot) -> ImageGeneric value, or NoImage
    debug_assertions,  \* TRUE in a debug build (DebugId checks compiled in)
    lastOp     \* the last call made: its inputs, result and backend calls

vars == <<gfx, images, debug_assertions, lastOp>>

----------------------------------------------------------------------------
(* Bounds *)

DimBits == 2
SizeBits == 5
MaxImages == 2

DimMax == 2^DimBits - 1
UsizeRange == 2^SizeBits

Slots == 1..MaxImages
\* two distinguishable byte values
Bytes == {0, 1}
Dims == {0, 1, DimMax}

BlendModes == {"Alpha", "Add"}
NoMode == "None"
FilterModes == {"Linear", "Nearest"}
WrapModes == {"Clamp", "Tile"}

\* Option<usize>: None is the empty sequence, Some(v) is <<v>>
None == <<>>
Some(v) == <<v>>

----------------------------------------------------------------------------
(* Values *)

default_sampler_info == [filter |-> "Linear", wrap_mode |-> <<"Clamp", "Clamp">>]

NoHandle == <<0, 0>>

NoImage ==
    [texture |-> NoHandle, texture_handle |-> NoHandle,
     sampler_info |-> default_sampler_info, blend_mode |-> NoMode,
     width |-> 0, height |-> 0, debug_id |-> 0]

Call(name) == [call |-> name, mode |-> NoMode, size |-> 0, ok |-> TRUE]
FailedCall(name) == [call |-> name, mode |-> NoMode, size |-> 0, ok |-> FALSE]

NoOp ==
    [op |-> "none", ctx |-> 0, slot |-> 0, result |-> "Ok", value |-> <<>>,
     trace |-> <<>>, width |-> 0, height |-> 0, len |-> 0,
     pre_mode |-> NoMode, override |-> NoMode, pre_len |-> 0,
     debug_id |-> 0]

Fill(len, b) == [i \in 1..len |-> b]
Ramp(len) == [i \in 1..len |-> i % 2]

\* the byte buffers a caller passes as rgba
Buffers(len) == {Fill(len, 0), Ramp(len)}

\* the lengths tried for a given width and height: empty, one pixel, the
\* exact product (when a slice can be that long) and the product wrapped to
\* the size integer
Lens(width, height) ==
    {n \in {0, 4, width * height * 4, (width * height * 4) % UsizeRange} :
        n < UsizeRange}

----------------------------------------------------------------------------
(* ImageGeneric::make_raw *)

zero_dimension_and(width, height) == width = 0 /\ height = 0

zero_dimension(width, height) == width = 0 \/ height = 0

checked_mul(a, b) == IF a * b < UsizeRange THEN Some(a * b) ELSE None

expected_bytes_wrapping(uwidth, uheight) ==
    Some((((uwidth * uheight) % UsizeRange) * 4) % UsizeRange)

expected_bytes(uwidth, uheight) ==
    LET size == checked_mul(uwidth, uheight)
    IN  IF size = None THEN None ELSE checked_mul(size[1], 4)

length_mismatch(expected, len) == expected # len

\* factory.create_texture_raw followed by view_texture_as_shader_resource_raw
\* on device c; tex is the texture store of the device
make_raw(c, tex, sampler_info, width, height, rgba, debug_id, fail) ==
    LET err(kind, calls) ==
            [result |-> kind, image |-> NoImage, factory |-> tex, trace |-> calls]
    IN  IF zero_dimension(width, height)
        THEN err("ResourceLoadError", <<>>)
        ELSE IF expected_bytes(width, height) = None
        THEN err("ResourceLoadError", <<>>)
        ELSE IF length_mismatch(expected_bytes(width, height)[1], Len(rgba))
        THEN err("ResourceLoadError", <<>>)
        ELSE IF fail = "create_texture_raw"
        THEN err("GpuError", <<FailedCall("create_texture_raw")>>)
        ELSE IF fail = "view_texture_as_shader_resource_raw"
        THEN err("GpuError", <<Call("create_texture_raw"),
                               FailedCall("view_texture_as_shader_resource_raw")>>)
        ELSE LET raw_tex == <<c, Len(tex) + 1>>
             IN  [result |-> "Ok",
                  image |-> [texture |-> raw_tex, texture_handle |-> raw_tex,
                             sampler_info |-> sampler_info, blend_mode |-> NoMode,
                             width |-> width, height |-> height,
                             debug_id |-> debug_id],
                  factory |-> Append(tex, [width |-> width, height |-> height,
                                           data |-> rgba]),
                  trace |-> <<Call("create_texture_raw"),
                              Call("view_texture_as_shader_resource_raw")>>]

MakeRawFails == {"none", "create_texture_raw", "view_texture_as_shader_resource_raw"}

\* DebugId::get(context)
DebugId_get(c) == c

\* Image::from_rgba8, its result bound to the next unused image variable s
from_rgba8(c, s, width, height, rgba, fail) ==
    /\ LET r == make_raw(c, gfx[c].factory, default_sampler_info, width, height,
                         rgba, DebugId_get(c), fail)
       IN  /\ gfx' = [gfx EXCEPT ![c].factory = r.factory]
           /\ images' = [images EXCEPT ![s] = r.image]
           /\ lastOp' = [NoOp EXCEPT !.op = "from_rgba8", !.ctx = c, !.slot = s,
                                     !.result = r.result, !.trace = r.trace,
                                     !.width = width, !.height = height,
                                     !.len = Len(rgba)]
    /\ UNCHANGED debug_assertions

\* the next unused image variable
Unused(s) ==
    /\ images[s] = NoImage
    /\ \A t \in Slots : t < s => images[t] # NoImage

FromRgba8 ==
    \E c \in DOMAIN gfx, s \in Slots :
        /\ Unused(s)
        /\ \E width \in Dims, height \in Dims :
             \E len \in Lens(width, height), fail \in MakeRawFails :
                \E rgba \in Buffers(len) :
                    from_rgba8(c, s, width, height, rgba, fail)

----------------------------------------------------------------------------
(* #[derive(Clone)]: the clone aliases the same texture and view *)

clone(s, t) ==
    /\ images[s] # NoImage
    /\ Unused(t)
    /\ images' = [images EXCEPT ![t] = images[s]]
    /\ lastOp' = [NoOp EXCEPT !.op = "clone", !.slot = t,
                              !.width = images[s].width,
                              !.height = images[s].height]
    /\ UNCHANGED <<gfx, debug_assertions>>

Clone == \E s \in Slots, t \in Slots : clone(s, t)

----------------------------------------------------------------------------
(* Image::to_rgba8 *)

size_needed(w, h) == (((w * h) % UsizeRange) * 4) % UsizeRange

buffer_too_small(len, needed) == len < needed

buffer_stale(len, needed) == len # needed

\* what the device c finds under a texture handle: the texture's bytes when
\* the handle is one of its own, unspecified bytes when it belongs to
\* another device
texture_bytes(c, image, junk) ==
    IF image.texture_handle[1] = c
    THEN gfx[c].factory[image.texture_handle[2]].data
    ELSE Fill(image.width * image.height * 4, junk)

\* encoder.copy_texture_to_buffer_raw at offset 0: the texture's bytes
\* overwrite the start of the buffer
copy_texture_to_buffer_raw(data, buf) ==
    [i \in 1..Len(buf) |-> IF i <= Len(data) THEN data[i] ELSE buf[i]]

\* the call's outcome: result, returned bytes, download buffer left behind,
\* backend calls made.  junk is the content of memory the code never wrote.
to_rgba8(image, c, fail, junk) ==
    LET dl_buffer == gfx[c].to_rgba8_buffer
        needed == size_needed(image.width, image.height)
        stale == buffer_stale(Len(dl_buffer), needed)
        out(kind, bytes, buf, calls) ==
            [result |-> kind, value |-> bytes, buffer |-> buf, trace |-> calls]
        create == [call |-> "create_download_buffer", mode |-> NoMode,
                   size |-> needed, ok |-> fail # "create_download_buffer"]
    IN  IF stale /\ fail = "create_download_buffer"
        THEN out("GpuError", <<>>, dl_buffer, <<create>>)
        ELSE LET buf1 == IF stale THEN Fill(needed, junk) ELSE dl_buffer
                 t1 == IF stale THEN <<create>> ELSE <<>>
             IN  IF fail = "copy_texture_to_buffer_raw"
                 THEN out("GpuError", <<>>, buf1,
                          t1 \o <<FailedCall("copy_texture_to_buffer_raw")>>)
                 ELSE LET buf2 == copy_texture_to_buffer_raw(
                                      texture_bytes(c, image, junk), buf1)
                          t2 == t1 \o <<Call("copy_texture_to_buffer_raw"),
                                        Call("flush")>>
                      IN  IF fail = "read_mapping"
                          THEN out("GpuError", <<>>, buf2,
                                   t2 \o <<FailedCall("read_mapping")>>)
                          ELSE out("Ok", buf2, buf2, t2 \o <<Call("read_mapping")>>)

ToRgba8Fails ==
    {"none", "create_download_buffer", "copy_texture_to_buffer_raw", "read_mapping"}

ReadOp(name, c, s, r) ==
    [NoOp EXCEPT !.op = name, !.ctx = c, !.slot = s, !.result = r.result,
                 !.value = r.value, !.trace = r.trace,
                 !.width = images[s].width, !.height = images[s].height,
                 !.pre_len = Len(gfx[c].to_rgba8_buffer),
                 !.debug_id = images[s].debug_id]

ToRgba8 ==
    \E c \in DOMAIN gfx, s \in Slots :
        /\ images[s] # NoImage
        /\ \E fail \in ToRgba8Fails, junk \in Bytes :
             LET r == to_rgba8(images[s], c, fail, junk)
             IN  /\ gfx' = [gfx EXCEPT ![c].to_rgba8_buffer = r.buffer]
                 /\ lastOp' = ReadOp("to_rgba8", c, s, r)
        /\ UNCHANGED <<images, debug_assertions>>

----------------------------------------------------------------------------
(* Image::encode: to_rgba8, filesystem::create, PngEncoder::encode *)

encode(image, c, fail, junk) ==
    LET data == to_rgba8(image, c, fail, junk)
    IN  IF data.result # "Ok"
        THEN data
        ELSE IF fail = "filesystem::create"
        THEN [data EXCEPT !.result = "IoError", !.value = <<>>,
                          !.trace = @ \o <<FailedCall("filesystem::create")>>]
        ELSE IF fail = "PngEncoder::encode"
        THEN [data EXCEPT !.result = "EncodeError", !.value = <<>>,
                          !.trace = @ \o <<Call("filesystem::create"),
                                           FailedCall("PngEncoder::encode")>>]
        ELSE [data EXCEPT !.trace = @ \o <<Call("filesystem::create"),
                                           Call("PngEncoder::encode")>>]

EncodeFails == ToRgba8Fails \cup {"filesystem::create", "PngEncoder::encode"}

Encode ==
    \E c \in DOMAIN gfx, s \in Slots :
        /\ images[s] # NoImage
        /\ \E fail \in EncodeFails, junk \in Bytes :
             LET r == encode(images[s], c, fail, junk)
             IN  /\ gfx' = [gfx EXCEPT ![c].to_rgba8_buffer = r.buffer]
                 /\ lastOp' = ReadOp("encode", c, s, r)
        /\ UNCHANGED <<images, debug_assertions>>

----------------------------------------------------------------------------
(* Accessors and setters *)

\* Image::dimensions, through width() and height()
dimensions(s) ==
    /\ images[s] # NoImage
    /\ lastOp' = [NoOp EXCEPT !.op = "dimensions", !.slot = s,
                              !.width = images[s].width,
                              !.height = images[s].height]
    /\ UNCHANGED <<gfx, images, debug_assertions>>

Dimensions == \E s \in Slots : dimensions(s)

set_filter_reset(image, mode) ==
    [image EXCEPT !.sampler_info = [default_sampler_info EXCEPT !.filter = mode]]

set_filter(image, mode) == [image EXCEPT !.sampler_info.filter = mode]

set_wrap(image, wrap_x, wrap_y) ==
    [image EXCEPT !.sampler_info.wrap_mode = <<wrap_x, wrap_y>>]

set_blend_mode(image, mode) == [image EXCEPT !.blend_mode = mode]

Setter(name, s, image) ==
    /\ images[s] # NoImage
    /\ images' = [images EXCEPT ![s] = image]
    /\ lastOp' = [NoOp EXCEPT !.op = name, !.slot = s,
                              !.width = image.width, !.height = image.height]
    /\ UNCHANGED <<gfx, debug_assertions>>

SetFilter ==
    \E s \in Slots, mode \in FilterModes :
        Setter("set_filter", s, set_filter(images[s], mode))

SetWrap ==
    \E s \in Slots, wrap_x \in WrapModes, wrap_y \in WrapModes :
        Setter("set_wrap", s, set_wrap(images[s], wrap_x, wrap_y))

SetBlendMode ==
    \E s \in Slots, mode \in BlendModes \cup {NoMode} :
        Setter("set_blend_mode", s, set_blend_mode(images[s], mode))

----------------------------------------------------------------------------
(* Drawable::draw and draw_image_raw *)

\* GraphicsContext::set_blend_mode: a failed switch leaves the mode as it was
gfx_set_blend_mode(g, mode, ok) ==
    IF ok THEN [g EXCEPT !.blend_mode = mode] ELSE g

SetCall(mode, ok) ==
    [call |-> "set_blend_mode", mode |-> mode, size |-> 0, ok |-> ok]

\* gfx.draw(None), issued while `mode` is the active blend mode
DrawCall(mode, ok) == [call |-> "draw", mode |-> mode, size |-> 0, ok |-> ok]

always_switch(current_mode, mode) == TRUE

blend_switch_needed(current_mode, mode) == current_mode # mode

remembered_override(current_mode, mode) == mode

remembered_mode(current_mode, mode) == current_mode

draw_image_raw(image, g, fail) ==
    LET out(kind, g2, calls) == [result |-> kind, gfx |-> g2, trace |-> calls]
    IN  IF fail = "update_instance_properties"
        THEN out("GpuError", g, <<FailedCall("update_instance_properties")>>)
        ELSE
        LET t0 == <<Call("update_instance_properties"), Call("get_or_insert")>>
            mode == image.blend_mode
            current_mode == g.blend_mode
            switch == mode # NoMode /\ blend_switch_needed(current_mode, mode)
        IN  IF switch /\ fail = "set_blend_mode"
            THEN out("GpuError", gfx_set_blend_mode(g, mode, FALSE),
                     t0 \o <<SetCall(mode, FALSE)>>)
            ELSE
            LET g1 == IF switch THEN gfx_set_blend_mode(g, mode, TRUE) ELSE g
                previous_mode ==
                    IF switch THEN remembered_mode(current_mode, mode) ELSE NoMode
                t1 == IF switch THEN t0 \o <<SetCall(mode, TRUE)>> ELSE t0
            IN  IF fail = "draw"
                THEN out("GpuError", g1, t1 \o <<DrawCall(g1.blend_mode, FALSE)>>)
                ELSE
                LET t2 == t1 \o <<DrawCall(g1.blend_mode, TRUE)>>
                IN  IF previous_mode = NoMode
                    THEN out("Ok", g1, t2)
                    ELSE IF fail = "restore_blend_mode"
                    THEN out("GpuError",
                             gfx_set_blend_mode(g1, previous_mode, FALSE),
                             t2 \o <<SetCall(previous_mode, FALSE)>>)
                    ELSE out("Ok", gfx_set_blend_mode(g1, previous_mode, TRUE),
                             t2 \o <<SetCall(previous_mode, TRUE)>>)

DrawFails ==
    {"none", "update_instance_properties", "set_blend_mode", "draw",
     "restore_blend_mode"}

\* DebugId::assert: compiled in only with debug assertions
DebugId_assert_fails(debug_id, c) ==
    debug_assertions /\ debug_id # DebugId_get(c)

draw(image, c, fail) ==
    IF DebugId_assert_fails(image.debug_id, c)
    THEN [result |-> "Panic", gfx |-> gfx[c], trace |-> <<>>]
    ELSE draw_image_raw(image, gfx[c], fail)

Draw ==
    \E c \in DOMAIN gfx, s \in Slots :
        /\ images[s] # NoImage
        /\ \E fail \in DrawFails :
             LET r == draw(images[s], c, fail)
             IN  /\ gfx' = [gfx EXCEPT ![c] = r.gfx]
                 /\ lastOp' = [NoOp EXCEPT !.op = "draw", !.ctx = c, !.slot = s,
                                         !.result = r.result, !.trace = r.trace,
                                         !.width = images[s].width,
                                         !.height = images[s].height,
                                         !.pre_mode = gfx[c].blend_mode,
                                         !.override = images[s].blend_mode,
                                         !.debug_id = images[s].debug_id]
        /\ UNCHANGED <<images, debug_assertions>>

----------------------------------------------------------------------------
(* Specifications *)

\* a context as ContextBuilder::build leaves it: no texture yet, a one-byte
\* download buffer
NewContext(mode) ==
    [blend_mode |-> mode, to_rgba8_buffer |-> Fill(1, 0), factory |-> <<>>]

\* One context; images are created, cloned and read back.  No action of
\* Next reads debug_assertions (only draw does), so one build is enough.
Init ==
    /\ gfx = [c \in {1} |-> NewContext("Alpha")]
    /\ images = [s \in Slots |-> NoImage]
    /\ debug_assertions = TRUE
    /\ lastOp = NoOp

Next ==
    \/ FromRgba8
    \/ Clone
    \/ ToRgba8
    \/ Dimensions

Spec == Init /\ [][Next]_vars

\* Two contexts and one image, created by context 1 with
\* from_rgba8(ctx, 1, 1, [0; 4]); it is configured, drawn, read back and
\* encoded through either context.  Context 1 starts in any blend mode,
\* context 2 in the default one.
FirstImage ==
    make_raw(1, <<>>, default_sampler_info, 1, 1, Fill(4, 0), DebugId_get(1), "none")

InitDraw ==
    /\ \E mode \in BlendModes :
          gfx = [c \in {1, 2} |->
                   IF c = 1
                   THEN [NewContext(mode) EXCEPT !.factory = FirstImage.factory]
                   ELSE NewContext("Alpha")]
    /\ images = [s \in Slots |-> IF s = 1 THEN FirstImage.image ELSE NoImage]
    /\ debug_assertions \in BOOLEAN
    /\ lastOp = NoOp

NextDraw ==
    \/ SetFilter
    \/ SetWrap
    \/ SetBlendMode
    \/ Draw
    \/ ToRgba8
    \/ Encode
    \/ Dimensions

SpecDraw == InitDraw /\ [][NextDraw]_vars

----------------------------------------------------------------------------
(* Properties *)

CallsOf(name) == {i \in DOMAIN lastOp.trace : lastOp.trace[i].call = name}

IsBlendCall(e) == e.call \in {"set_blend_mode", "draw"}

\* the blend-mode switches and draw calls of the last operation, in order
BlendTrace == SelectSeq(lastOp.trace, IsBlendCall)

Switched ==
    \E i \in CallsOf("set_blend_mode") :
        /\ lastOp.trace[i].ok
        /\ lastOp.trace[i].mode = lastOp.override

\* C1: whenever draw has switched the context's blend mode to the image's
\* override O # M, the context's active blend mode is M again when draw
\* returns, whether the backend draw call succeeded or failed.
BlendModeRestoredOnEveryExit ==
    (lastOp.op = "draw" /\ lastOp.override # lastOp.pre_mode /\ Switched)
        => gfx[lastOp.ctx].blend_mode = lastOp.pre_mode

ValidInput(width, height, len) ==
    width > 0 /\ height > 0 /\ len = width * height * 4

Held(h) == \E s \in Slots : images[s] # NoImage /\ images[s].texture_handle = h

\* C2: from_rgba8 / make_raw returns ResourceLoadError, with no backend call
\* and no texture or image left behind, when width = 0, height = 0 or the
\* buffer length differs from width*height*4; on every other input the
\* validation passes (the texture allocation is issued) and an image that
\* is returned reports the given width and height.
MakeRawValidates ==
    /\ \A c \in DOMAIN gfx : \A i \in 1..Len(gfx[c].factory) : Held(<<c, i>>)
    /\ lastOp.op = "from_rgba8" =>
         IF ValidInput(lastOp.width, lastOp.height, lastOp.len)
         THEN /\ lastOp.result \in {"Ok", "GpuError"}
              /\ CallsOf("create_texture_raw") # {}
              /\ lastOp.result = "Ok" =>
                    /\ images[lastOp.slot].width = lastOp.width
                    /\ images[lastOp.slot].height = lastOp.height
         ELSE /\ lastOp.result = "ResourceLoadError"
              /\ lastOp.trace = <<>>
              /\ images[lastOp.slot] = NoImage

\* (0, 0, []) is rejected although the length equals 0*0*4
WitnessZeroSizeRejected ==
    /\ lastOp.op = "from_rgba8"
    /\ lastOp.width = 0 /\ lastOp.height = 0 /\ lastOp.len = 0
    /\ lastOp.result = "ResourceLoadError"

\* C3: when width*height*4 does not fit the size integer, make_raw returns
\* ResourceLoadError for every buffer, the one whose length equals the
\* wrapped product included; it neither panics nor accepts the input.
OverflowRejected ==
    (lastOp.op = "from_rgba8" /\ lastOp.width * lastOp.height * 4 >= UsizeRange)
        => /\ lastOp.result = "ResourceLoadError"
           /\ lastOp.trace = <<>>
           /\ images[lastOp.slot] = NoImage

WitnessWrappedLengthRejected ==
    /\ lastOp.op = "from_rgba8"
    /\ lastOp.width = DimMax /\ lastOp.height = DimMax
    /\ lastOp.width * lastOp.height * 4 >= UsizeRange
    /\ lastOp.len = (lastOp.width * lastOp.height * 4) % UsizeRange
    /\ lastOp.result = "ResourceLoadError"

\* the bytes given to from_rgba8 for the image in slot s
UploadedData(s) ==
    gfx[images[s].texture_handle[1]].factory[images[s].texture_handle[2]].data

\* C4: a to_rgba8 that returns Ok returns exactly the bytes the image was
\* created from, whatever length and content the download buffer had from
\* earlier read-backs.
RoundTrip ==
    (lastOp.op = "to_rgba8" /\ lastOp.result = "Ok"
        /\ images[lastOp.slot].debug_id = lastOp.ctx)
        => lastOp.value = UploadedData(lastOp.slot)

\* a read-back through a buffer left larger by the read-back of another image
WitnessRoundTripAfterLargerImage ==
    /\ lastOp.op = "to_rgba8" /\ lastOp.result = "Ok"
    /\ lastOp.pre_len > Len(lastOp.value)
    /\ lastOp.value = UploadedData(lastOp.slot)
    /\ lastOp.value = Ramp(4)

\* C5: draw, to_rgba8 and encode called in a debug build with a context
\* other than the image's owner are all rejected by the identity assertion
\* before any backend call.
OwnerAssertedByEveryContextOp ==
    (/\ lastOp.op \in {"draw", "to_rgba8", "encode"}
     /\ debug_assertions
     /\ lastOp.debug_id # DebugId_get(lastOp.ctx))
        => lastOp.result = "Panic" /\ lastOp.trace = <<>>

NoSwitchWithoutOverride ==
    (/\ lastOp.op = "draw"
     /\ lastOp.override = NoMode \/ lastOp.override = lastOp.pre_mode)
        => /\ CallsOf("set_blend_mode") = {}
           /\ gfx[lastOp.ctx].blend_mode = lastOp.pre_mode

\* a completed draw of an image whose override equals the active mode
WitnessDrawWithMatchingOverride ==
    /\ lastOp.op = "draw" /\ lastOp.result = "Ok"
    /\ lastOp.override = lastOp.pre_mode
    /\ CallsOf("draw") # {}

\* C8: with an override O different from the active mode M, a successful
\* draw is: set O, one draw call while O is active, set M; no draw call is
\* issued before the switch, and a failed switch returns the error without
\* any draw call.
OverrideDrawOrder ==
    (/\ lastOp.op = "draw"
     /\ lastOp.override # NoMode
     /\ lastOp.override # lastOp.pre_mode)
        => /\ lastOp.result = "Ok" =>
                 BlendTrace = <<SetCall(lastOp.override, TRUE),
                                DrawCall(lastOp.override, TRUE),
                                SetCall(lastOp.pre_mode, TRUE)>>
           /\ BlendTrace # <<>> =>
                 /\ BlendTrace[1].call = "set_blend_mode"
                 /\ BlendTrace[1].mode = lastOp.override
                 /\ ~BlendTrace[1].ok =>
                       lastOp.result = "GpuError" /\ Len(BlendTrace) = 1
           /\ Cardinality(CallsOf("draw")) <= 1

WitnessOverrideDraw ==
    /\ lastOp.op = "draw" /\ lastOp.result = "Ok"
    /\ lastOp.override # NoMode
    /\ lastOp.override # lastOp.pre_mode
    /\ Len(BlendTrace) = 3
    /\ gfx[lastOp.ctx].blend_mode = lastOp.pre_mode

Setters == {"set_filter", "set_wrap", "set_blend_mode"}

ImageStep(s) ==
    /\ images'[s].width = images[s].width
    /\ images'[s].height = images[s].height
    /\ images'[s].texture = images[s].texture
    /\ images'[s].texture_handle = images[s].texture_handle
    /\ (lastOp'.op = "set_filter" /\ lastOp'.slot = s) =>
          images'[s] = [images[s] EXCEPT
                          !.sampler_info.filter = images'[s].sampler_info.filter]
    /\ (lastOp'.op = "set_wrap" /\ lastOp'.slot = s) =>
          images'[s] = [images[s] EXCEPT
                          !.sampler_info.wrap_mode = images'[s].sampler_info.wrap_mode]
    /\ (lastOp'.op = "set_blend_mode" /\ lastOp'.slot = s) =>
          images'[s] = [images[s] EXCEPT !.blend_mode = images'[s].blend_mode]
    /\ (lastOp'.op \notin Setters \/ lastOp'.slot # s) => images'[s] = images[s]

\* C9: over set_filter, set_wrap, set_blend_mode, draw, to_rgba8, encode and
\* accessor calls an image keeps its width, height, texture view and
\* texture handle; set_filter changes only the filter, set_wrap only the
\* wrap modes, set_blend_mode only the override, no other call changes the
\* image, and a setter makes no backend call and leaves every context alone.
OnlySettersMutate ==
    [][/\ \A s \in Slots : images[s] # NoImage => ImageStep(s)
       /\ lastOp'.op \in Setters => gfx' = gfx /\ lastOp'.trace = <<>>]_vars

\* set_filter applied to an image whose wrap modes and override are not
\* the defaults
WitnessFilterSetOnConfiguredImage ==
    /\ lastOp.op = "set_filter"
    /\ images[lastOp.slot].sampler_info.filter = "Nearest"
    /\ images[lastOp.slot].sampler_info.wrap_mode = <<"Tile", "Clamp">>
    /\ images[lastOp.slot].blend_mode = "Add"
    /\ images[lastOp.slot].width = 1

\* C10: every image, clones included, has width > 0, height > 0 and
\* width*height*4 inside the size integer, so the unchecked product in
\* to_rgba8 equals the mathematical one.
ImagesRepresentable ==
    \A s \in Slots :
        images[s] # NoImage =>
            /\ images[s].width > 0
            /\ images[s].height > 0
            /\ images[s].width * images[s].height * 4 < UsizeRange
            /\ size_needed(images[s].width, images[s].height)
                  = images[s].width * images[s].height * 4

\* a clone of the largest image that fits has been read back
WitnessCloneReadBack ==
    /\ lastOp.op = "to_rgba8" /\ lastOp.result = "Ok"
    /\ lastOp.width * lastOp.height = DimMax
    /\ \E s \in Slots :
          s # lastOp.slot /\ images[s] = images[lastOp.slot]

====
